---- MODULE Spec2Model ----
(***************************************************************************)
(* Model of distributed_shampoo/matrix_functions.py: the method dispatcher *)
(* matrix_inverse_root, the eigen extractor _matrix_root_eigen, the coupled*)
(* Newton iterator _matrix_inverse_root_newton and the residual validator  *)
(* compute_matrix_root_inverse_residuals.                                  *)
(*                                                                         *)
(* Floating point numbers are modelled as fixed-point numbers: a finite    *)
(* value x is the integer x * Scale truncated toward zero, a magnitude     *)
(* above FloatMax overflows to +-inf, and nan/inf follow IEEE rules        *)
(* (inf - inf = nan, 0 * inf = nan, x / 0 = +-inf, 0 / 0 = nan, every      *)
(* comparison with nan is false).  Signed zeros are not modelled.          *)
(* Tensors are records of a shape and the row-major sequence of entries.   *)
(***************************************************************************)
EXTENDS Integers, Sequences, FiniteSets, TLC

\* ---------------------------------------------------------------- bounds
\* fixed-point scale: the value 1.0 is the integer Scale
Scale == 256
\* largest finite magnitude (raw); FloatMax * FloatMax fits a 32-bit integer
FloatMax == 32767
\* largest max_iterations a caller passes
MaxIters == 3

\* ---------------------------------------------------------------- floats
NaN == [k |-> "nan", v |-> 0]
Inf(s) == [k |-> "inf", v |-> s]
NoFloat == [k |-> "none", v |-> 0]
Fin(n) == IF n > FloatMax THEN Inf(1)
          ELSE IF n < -FloatMax THEN Inf(-1)
          ELSE [k |-> "fin", v |-> n]
\* the float of the integer n
FInt(n) == Fin(n * Scale)
Zero == Fin(0)
One == FInt(1)

IAbs(n) == IF n < 0 THEN -n ELSE n
Sgn(n) == IF n < 0 THEN -1 ELSE IF n > 0 THEN 1 ELSE 0
\* sign used when dividing by a value: the zero is the positive zero
DSgn(n) == IF n < 0 THEN -1 ELSE 1
\* integer division truncating toward zero
TruncDiv(a, b) == Sgn(a) * Sgn(b) * (IAbs(a) \div IAbs(b))

IsNaN(a) == a.k = "nan"
IsInf(a) == a.k = "inf"
IsFin(a) == a.k = "fin"
IsZero(a) == a.k = "fin" /\ a.v = 0

\* F applied to the values of its operands, each operand evaluated once
Bind1(F(_), x) == CHOOSE r \in {F(a) : a \in {x}} : TRUE
Bind2(F(_, _), x, y) == CHOOSE r \in {F(a, b) : a \in {x}, b \in {y}} : TRUE

FNegV(a) == IF IsFin(a) THEN Fin(-a.v) ELSE IF IsInf(a) THEN Inf(-a.v) ELSE a
FNeg(x) == Bind1(FNegV, x)
FAbsV(a) == IF IsFin(a) THEN Fin(IAbs(a.v)) ELSE IF IsInf(a) THEN Inf(1) ELSE a
FAbs(x) == Bind1(FAbsV, x)

FAddV(a, b) ==
    IF IsNaN(a) \/ IsNaN(b) THEN NaN
    ELSE IF IsInf(a) /\ IsInf(b) THEN (IF a.v = b.v THEN a ELSE NaN)
    ELSE IF IsInf(a) THEN a
    ELSE IF IsInf(b) THEN b
    ELSE Fin(a.v + b.v)
FAdd(x, y) == Bind2(FAddV, x, y)

FSub(a, b) == FAdd(a, FNeg(b))

FMulV(a, b) ==
    IF IsNaN(a) \/ IsNaN(b) THEN NaN
    ELSE IF IsInf(a) \/ IsInf(b)
         THEN (IF IsZero(a) \/ IsZero(b) THEN NaN ELSE Inf(Sgn(a.v) * Sgn(b.v)))
    ELSE Fin(TruncDiv(a.v * b.v, Scale))
FMul(x, y) == Bind2(FMulV, x, y)

FDivV(a, b) ==
    IF IsNaN(a) \/ IsNaN(b) THEN NaN
    ELSE IF IsInf(a) THEN (IF IsInf(b) THEN NaN ELSE Inf(a.v * DSgn(b.v)))
    ELSE IF IsInf(b) THEN Zero
    ELSE IF b.v = 0 THEN (IF a.v = 0 THEN NaN ELSE Inf(Sgn(a.v)))
    ELSE Fin(TruncDiv(a.v * Scale, b.v))
FDiv(x, y) == Bind2(FDivV, x, y)

\* comparisons: false whenever an operand is nan
FVal(a) == IF IsInf(a) THEN a.v * (FloatMax + 1) ELSE a.v
FGt(a, b) == ~IsNaN(a) /\ ~IsNaN(b) /\ FVal(a) > FVal(b)
FLe(a, b) == ~IsNaN(a) /\ ~IsNaN(b) /\ FVal(a) <= FVal(b)
FLt(a, b) == ~IsNaN(a) /\ ~IsNaN(b) /\ FVal(a) < FVal(b)

\* torch.minimum / max of absolute values: nan propagates
FMinV(a, b) == IF IsNaN(a) \/ IsNaN(b) THEN NaN ELSE IF FLe(a, b) THEN a ELSE b
FMin(x, y) == Bind2(FMinV, x, y)
FMaxV(a, b) == IF IsNaN(a) \/ IsNaN(b) THEN NaN ELSE IF FLe(a, b) THEN b ELSE a
FMax(x, y) == Bind2(FMaxV, x, y)

\* x ** n for an integer n >= 0 by repeated multiplication
RECURSIVE FPowNat(_, _)
FPowNat(x, n) == IF n = 0 THEN One ELSE FMul(FPowNat(x, n - 1), x)

\* r ** n <= t for integers r >= 0, t >= 0, without forming r ** n
RECURSIVE PowLe(_, _, _)
PowLe(r, n, t) ==
    IF n = 0 THEN 1 <= t
    ELSE IF r = 0 THEN TRUE
    ELSE PowLe(r, n - 1, t \div r)

\* the largest r in lo..hi with r ** n <= t, by bisection
RECURSIVE RootSearch(_, _, _, _)
RootSearch(t, n, lo, hi) ==
    IF lo >= hi THEN lo
    ELSE LET mid == (lo + hi + 1) \div 2
         IN IF PowLe(mid, n, t)
            THEN RootSearch(t, n, mid, hi)
            ELSE RootSearch(t, n, lo, mid - 1)

\* Scale ** n
RECURSIVE ScalePow(_)
ScalePow(n) == IF n = 0 THEN 1 ELSE Scale * ScalePow(n - 1)

\* x ** (1/n) for an integer n >= 1, truncated
FRootV(x, n) ==
    IF IsNaN(x) THEN NaN
    ELSE IF n = 1 THEN x
    ELSE IF IsInf(x) THEN Inf(1)
    ELSE IF FLt(x, Zero) THEN NaN
    ELSE Fin(RootSearch(x.v * ScalePow(n - 1), n, 0, FloatMax))
FRoot(x, n) == Bind2(FRootV, x, n)

\* x ** (sign / root) for an integer root # 0 and sign in {1, -1}:
\* the pow of a float by the Python float sign / root
FPowFrac(x, sign, root) ==
    LET positive == (sign > 0) = (root > 0)
        r == FRoot(x, IAbs(root))
    IN IF positive THEN r ELSE FDiv(One, r)

\* --------------------------------------------------------------- tensors
Tensor(shape, d) == [shape |-> shape, d |-> d]
\* the value of a name that was never bound (nothing computed, nothing returned)
NoTensor == Tensor(<<0>>, <<>>)
NDim(T) == Len(T.shape)
Rows(T) == T.shape[1]
Cols(T) == T.shape[2]
At(T, i, j) == T.d[(i - 1) * Cols(T) + j]
\* the n x m matrix whose entry (i, j) is F(i, j)
Mat(n, m, F(_, _)) ==
    Tensor(<<n, m>>, [x \in 1..(n * m) |-> F(((x - 1) \div m) + 1, ((x - 1) % m) + 1)])
\* elementwise map over the entries of a tensor of any shape
Map(T, F(_)) == Tensor(T.shape, [x \in 1..Len(T.d) |-> F(T.d[x])])

\* torch.eye(dim)
Eye(dim) == Mat(dim, dim, LAMBDA i, j : IF i = j THEN One ELSE Zero)
\* c * T for a scalar c
Scal(c, T) == Map(T, LAMBDA x : FMul(c, x))
\* S + c * T, as Tensor.add(T, alpha=c) for tensors of one shape
AddScaled(S, T, c) ==
    Tensor(S.shape, [x \in 1..Len(S.d) |-> FAdd(S.d[x], FMul(c, T.d[x]))])

\* the sum of the first n entries of the sequence d, left to right
RECURSIVE FSum(_, _)
FSum(d, n) == IF n = 0 THEN Zero ELSE FAdd(FSum(d, n - 1), d[n])
\* S @ T
MatMul(S, T) ==
    Mat(Rows(S), Cols(T),
        LAMBDA i, j : FSum([x \in 1..Cols(S) |-> FMul(At(S, i, x), At(T, x, j))], Cols(S)))
Transpose(T) == Mat(Cols(T), Rows(T), LAMBDA i, j : At(T, j, i))

RECURSIVE FMaxSeq(_, _)
FMaxSeq(d, n) == IF n = 0 THEN Zero ELSE FMax(FMaxSeq(d, n - 1), FAbs(d[n]))
\* torch.norm(T, p=inf): the largest absolute entry
NormInf(T) == FMaxSeq(T.d, Len(T.d))
\* torch.dist(S, T, p=inf): the largest absolute entry of S - T
DistInf(S, T) == NormInf(AddScaled(S, T, FNeg(One)))
\* torch.linalg.norm(T): the Frobenius norm
NormFro(T) == FRoot(FSum([x \in 1..Len(T.d) |-> FMul(T.d[x], T.d[x])], Len(T.d)), 2)

HasNaN(T) == \E x \in 1..Len(T.d) : IsNaN(T.d[x])
AllFinite(T) == \A x \in 1..Len(T.d) : IsFin(T.d[x])

\* M ** n for n >= 0 by repeated multiplication
RECURSIVE MatPowNat(_, _)
MatPowNat(T, n) == IF n = 0 THEN Eye(Rows(T)) ELSE MatMul(MatPowNat(T, n - 1), T)

\* determinant and inverse of a 1 x 1 or 2 x 2 matrix (cofactor formula)
Det(T) ==
    IF Rows(T) = 1 THEN At(T, 1, 1)
    ELSE FSub(FMul(At(T, 1, 1), At(T, 2, 2)), FMul(At(T, 1, 2), At(T, 2, 1)))
Singular(T) == IsZero(Det(T))
MatInv(T) ==
    IF Rows(T) = 1 THEN Mat(1, 1, LAMBDA i, j : FDiv(One, At(T, 1, 1)))
    ELSE Mat(2, 2, LAMBDA i, j :
             FDiv(IF i = j THEN At(T, 3 - i, 3 - j) ELSE FNeg(At(T, i, j)), Det(T)))

\* torch.linalg.matrix_power(T, n) of a square T; a negative n inverts first,
\* and the inversion of a singular matrix raises
MatrixPowerRaises(T, n) == n < 0 /\ Singular(T)
MatrixPower(T, n) ==
    IF n >= 0 THEN MatPowNat(T, n) ELSE MatPowNat(MatInv(T), -n)

\* torch.linalg.eigh of a diagonal matrix: the diagonal in ascending order and
\* the permutation matrix whose column i is the unit vector of the i-th
\* smallest diagonal entry
Diag(T) == [i \in 1..Rows(T) |-> At(T, i, i)]
SortPerm(d) ==
    CHOOSE p \in [1..Len(d) -> 1..Len(d)] :
        /\ \A i, j \in 1..Len(d) : i # j => p[i] # p[j]
        /\ \A i, j \in 1..Len(d) :
             i < j => (FLt(d[p[i]], d[p[j]]) \/ (d[p[i]] = d[p[j]] /\ p[i] < p[j]))
EighL(T) == LET p == SortPerm(Diag(T))
            IN Tensor(<<Rows(T)>>, [i \in 1..Rows(T) |-> Diag(T)[p[i]]])
EighQ(T) == LET p == SortPerm(Diag(T))
            IN Mat(Rows(T), Rows(T), LAMBDA i, j : IF i = p[j] THEN One ELSE Zero)

\* Q * w.unsqueeze(0): column j of Q scaled by w[j]
ScaleCols(Qm, w) == Mat(Rows(Qm), Cols(Qm), LAMBDA i, j : FMul(At(Qm, i, j), w.d[j]))
\* Q diag(w) Q^T
Reconstruct(Qm, w) == MatMul(ScaleCols(Qm, w), Transpose(Qm))

\* ------------------------------------------------------------------ enums
\* NewtonConvergenceFlag
REACHED_MAX_ITERS == "REACHED_MAX_ITERS"
CONVERGED == "CONVERGED"
NoFlag == "none"
\* RootInvMethod, and a selector that is neither
EIGEN == "EIGEN"
NEWTON == "NEWTON"
OTHER_METHOD == "OTHER"

\* how a call ended: Returned, or the exception it raised
Returned == "returned"
Running == "running"
InvalidRootError == "ValueError: Root should be positive!"
NotTwoDimError == "ValueError: Matrix is not 2-dimensional!"
NotSquareError == "ValueError: Matrix is not square!"
ShapeMismatchError == "ValueError: Matrix shapes do not match!"
UnsupportedMethodError == "NotImplementedError"
ZeroDivisionError == "ZeroDivisionError"
IndexError == "IndexError"
BroadcastError == "RuntimeError"
LinAlgError == "LinAlgError"
ShapeErrors == {NotTwoDimError, NotSquareError, ShapeMismatchError}

\* ------------------------------------------------- _matrix_root_eigen
\* "check if matrix is scalar": 0-dimensional, or 1-dimensional with one element
IsScalarShape_only0D(a) == NDim(a) = 0
IsScalarShape(a) == NDim(a) = 0 \/ (NDim(a) = 1 /\ a.shape[1] = 1)

\* alpha = 1 / root, negated when inverse: applied as x ** alpha
PowAlpha(x, r, inv) == FPowFrac(x, IF inv THEN -1 ELSE 1, r)

RECURSIVE FMinSeq(_, _)
FMinSeq(d, n) == IF n = 1 THEN d[1] ELSE FMin(FMinSeq(d, n - 1), d[n])
\* torch.min(L)
TensorMin(T) == FMinSeq(T.d, Len(T.d))

\* L += -torch.minimum(lambda_min, 0.0) when make_positive_semidefinite
PsdShift_none(Lv, psd) == Lv
PsdShift(Lv, psd) ==
    IF psd THEN Map(Lv, LAMBDA x : FAdd(x, FNeg(FMin(TensorMin(Lv), Zero)))) ELSE Lv
\* L += epsilon
AddEpsilon(Lv, eps) == Map(Lv, LAMBDA x : FAdd(x, eps))

\* "check matrix shape", lines 119-123: the error raised, or Returned
EigenShapeError_noSquareCheck(a) ==
    IF NDim(a) # 2 THEN NotTwoDimError ELSE Returned
EigenShapeError(a) ==
    IF NDim(a) # 2 THEN NotTwoDimError
    ELSE IF Rows(a) # Cols(a) THEN NotSquareError
    ELSE Returned

EigenRaise(e) ==
    [outcome |-> e, X |-> NoTensor, L |-> NoTensor, Q |-> NoTensor, work |-> <<>>]

\* _matrix_root_eigen(A, root, epsilon, inverse, make_positive_semidefinite):
\* how it ends, what it returns and the work it did, in order
_matrix_root_eigen(a, r, eps, inv, psd) ==
    IF r <= 0 THEN EigenRaise(InvalidRootError)
    ELSE IF IsScalarShape(a)
         THEN [outcome |-> Returned,
               X |-> Map(a, LAMBDA x : PowAlpha(x, r, inv)),
               L |-> a,
               Q |-> Tensor(<<>>, <<One>>),
               work |-> <<"pow">>]
    ELSE IF EigenShapeError(a) # Returned THEN EigenRaise(EigenShapeError(a))
    ELSE LET Lv == AddEpsilon(PsdShift(EighL(a), psd), eps)
             Qm == EighQ(a)
         IN [outcome |-> Returned,
             X |-> Reconstruct(Qm, Map(Lv, LAMBDA x : PowAlpha(x, r, inv))),
             L |-> Lv,
             Q |-> Qm,
             work |-> <<"eigh", "pow", "matmul">>]

\* matrix_inverse_root(A, root, epsilon) with root_inv_method = EIGEN
DispatchEigen(a, r, eps) == _matrix_root_eigen(a, r, eps, TRUE, TRUE)

\* ------------------------------- compute_matrix_root_inverse_residuals
ValidatorRaise(e, w) ==
    [outcome |-> e, relative_error |-> NoFloat, relative_residual |-> NoFloat,
     work |-> w]

\* "check shape of matrix", lines 237-243: the error raised, or Returned
ValidatorShapeError(a, xh) ==
    IF NDim(a) # 2 THEN NotTwoDimError
    ELSE IF Rows(a) # Cols(a) THEN NotSquareError
    ELSE IF a.shape # xh.shape THEN ShapeMismatchError
    ELSE Returned

compute_matrix_root_inverse_residuals(a, xh, r, eps) ==
    IF ValidatorShapeError(a, xh) # Returned
    THEN ValidatorRaise(ValidatorShapeError(a, xh), <<>>)
    ELSE LET ref == DispatchEigen(a, r, eps)
         IN IF ref.outcome # Returned THEN ValidatorRaise(ref.outcome, ref.work)
            ELSE IF MatrixPowerRaises(xh, -r)
                 THEN ValidatorRaise(LinAlgError, ref.work \o <<"matrix_power">>)
            ELSE [outcome |-> Returned,
                  relative_error |->
                      FDiv(DistInf(ref.X, xh), NormInf(ref.X)),
                  relative_residual |->
                      FDiv(DistInf(MatrixPower(xh, -r), a), NormInf(a)),
                  work |-> ref.work \o <<"matrix_power">>]

\* ------------------------------------------ _matrix_inverse_root_newton
\* alpha = -1 / root
NewtonAlpha(r) == FDiv(FInt(-1), FInt(r))
\* what the statements up to A.add_ raise, if anything
NewtonEntryError(a, r) ==
    IF NDim(a) = 0 THEN IndexError
    ELSE IF r = 0 THEN ZeroDivisionError
    ELSE IF a.shape # <<a.shape[1], a.shape[1]>> THEN BroadcastError
    ELSE Returned
\* A.add_(identity, alpha=epsilon)
Regularize_outOfPlace(a, eps) == a
Regularize(a, eps) == AddScaled(a, Eye(Rows(a)), eps)
\* z = (root + 1) / (2 * A_nrm)
NewtonZ(a, r) == FDiv(FInt(r + 1), FMul(FInt(2), NormFro(a)))
\* X = z ** (-alpha) * identity
NewtonX0(zz, r, dim) == Scal(FPowFrac(zz, 1, r), Eye(dim))
\* M_p = M.mul(alpha).add_(identity, alpha=(1 - alpha))
NewtonMp(m, r) ==
    AddScaled(Scal(NewtonAlpha(r), m), Eye(Rows(m)), FSub(One, NewtonAlpha(r)))
\* the loop condition: error > tolerance and iteration < max_iterations
LoopCondition_offByOne(err, tol, it, maxit) == FGt(err, tol) /\ it <= maxit
LoopCondition(err, tol, it, maxit) == FGt(err, tol) /\ it < maxit
\* CONVERGED if error <= tolerance else REACHED_MAX_ITERS
TerminationFlag_byCap(err, tol, it, maxit) ==
    IF it < maxit THEN CONVERGED ELSE REACHED_MAX_ITERS
TerminationFlag(err, tol, it, maxit) ==
    IF FLe(err, tol) THEN CONVERGED ELSE REACHED_MAX_ITERS

\* ---------------------------------------------------------------- inputs
\* the diagonal matrix of the integers in the sequence ds
DiagT(ds) ==
    Tensor(<<Len(ds), Len(ds)>>,
           [x \in 1..(Len(ds) * Len(ds)) |->
               IF (x - 1) \div Len(ds) = (x - 1) % Len(ds)
               THEN FInt(ds[((x - 1) \div Len(ds)) + 1]) ELSE Zero])
Scalar0D == Tensor(<<>>, <<FInt(4)>>)
Vector1 == Tensor(<<1>>, <<FInt(4)>>)
Vector2 == Tensor(<<2>>, <<FInt(1), FInt(2)>>)
NonSquare == Tensor(<<2, 3>>, <<FInt(1), Zero, Zero, Zero, FInt(1), Zero>>)
\* the symmetric matrices passed are diagonal, so that EighL and EighQ are
\* their exact eigendecomposition; the eigenvector signs and the basis of a
\* repeated eigenvalue, which LAPACK leaves open, are fixed to unit vectors
SquareTensors ==
    { DiagT(<<4>>), DiagT(<<0>>), DiagT(<<-1>>),
      DiagT(<<1, 1>>), DiagT(<<2, 0>>), DiagT(<<4, 1>>), DiagT(<<-1, 2>>),
      DiagT(<<0, 0>>) }
Tensors == {Scalar0D, Vector1, Vector2, NonSquare} \cup SquareTensors
Roots == {-1, 0, 1, 2}
Epsilons == {Zero, One}
Tolerances == {Zero, Fin(4), Fin(64)}

\* ----------------------------------------------------------------- state
VARIABLES
    pc,             \* "idle", "newton_loop" (at the while test) or "done"
    entry,          \* the function the caller called
    A, X_hat,       \* the caller's tensors
    A_before, X_hat_before,   \* their values when the call was made
    root, epsilon, root_inv_method, max_iterations, tolerance,
    inverse, make_positive_semidefinite,
    iteration, z, X, M, error, termination_flag,   \* locals of the iterator
    L, Q,           \* returned by the eigen extractor
    relative_error, relative_residual,   \* returned by the validator
    result,         \* the tensor matrix_inverse_root returned
    outcome,        \* Running, Returned, or the exception raised
    warnings,       \* logging.warning calls made
    work,           \* the numerical operations performed, in order
    updates         \* how many times the loop assigned X and M

vars == <<pc, entry, A, X_hat, A_before, X_hat_before, root, epsilon,
          root_inv_method, max_iterations, tolerance, inverse,
          make_positive_semidefinite, iteration, z, X, M, error,
          termination_flag, L, Q, relative_error, relative_residual, result,
          outcome, warnings, work, updates>>

inputs == <<entry, X_hat, A_before, X_hat_before, root, epsilon,
            root_inv_method, max_iterations, tolerance, inverse,
            make_positive_semidefinite>>
eigenOut == <<L, Q>>
validatorOut == <<relative_error, relative_residual>>

Init ==
    /\ pc = "idle"
    /\ entry = "none"
    /\ A = NoTensor /\ X_hat = NoTensor
    /\ A_before = NoTensor /\ X_hat_before = NoTensor
    /\ root = 1 /\ epsilon = Zero /\ root_inv_method = EIGEN
    /\ max_iterations = 0 /\ tolerance = Zero
    /\ inverse = TRUE /\ make_positive_semidefinite = TRUE
    /\ iteration = 0 /\ z = NoFloat /\ X = NoTensor /\ M = NoTensor
    /\ error = NoFloat /\ termination_flag = NoFlag
    /\ L = NoTensor /\ Q = NoTensor
    /\ relative_error = NoFloat /\ relative_residual = NoFloat
    /\ result = NoTensor
    /\ outcome = Running
    /\ warnings = 0
    /\ work = <<>>
    /\ updates = [X |-> 0, M |-> 0]

\* the caller passes its arguments
Pass(e, a, xh, r, eps, meth, maxit, tol, inv, psd) ==
    /\ entry' = e
    /\ A_before' = a /\ X_hat' = xh /\ X_hat_before' = xh
    /\ root' = r /\ epsilon' = eps /\ root_inv_method' = meth
    /\ max_iterations' = maxit /\ tolerance' = tol
    /\ inverse' = inv /\ make_positive_semidefinite' = psd

\* ------------------------------------------------------------- operations
\* _matrix_root_eigen called directly
CallEigen ==
    /\ pc = "idle"
    /\ \E a \in Tensors, r \in Roots, eps \in Epsilons, inv \in BOOLEAN,
          psd \in BOOLEAN :
        LET e == _matrix_root_eigen(a, r, eps, inv, psd)
        IN /\ Pass("_matrix_root_eigen", a, NoTensor, r, eps, EIGEN, 0, Zero,
                   inv, psd)
           /\ A' = a
           /\ X' = e.X /\ L' = e.L /\ Q' = e.Q
           /\ outcome' = e.outcome
           /\ work' = e.work
    /\ pc' = "done"
    /\ UNCHANGED <<iteration, z, M, error, termination_flag, validatorOut,
                   result, warnings, updates>>

\* matrix_inverse_root with root_inv_method = EIGEN
CallDispatcherEigen ==
    /\ pc = "idle"
    /\ \E a \in Tensors, r \in Roots, eps \in Epsilons :
        LET e == DispatchEigen(a, r, eps)
        IN /\ Pass("matrix_inverse_root", a, NoTensor, r, eps, EIGEN, 0, Zero,
                   TRUE, TRUE)
           /\ A' = a
           /\ X' = e.X
           /\ result' = e.X
           /\ outcome' = e.outcome
           /\ work' = e.work
    /\ pc' = "done"
    /\ UNCHANGED <<iteration, z, M, error, termination_flag, eigenOut,
                   validatorOut, warnings, updates>>

\* matrix_inverse_root with a selector that is neither EIGEN nor NEWTON
CallDispatcherOther ==
    /\ pc = "idle"
    /\ \E a \in Tensors, r \in Roots, eps \in Epsilons :
        /\ Pass("matrix_inverse_root", a, NoTensor, r, eps, OTHER_METHOD, 0,
                Zero, TRUE, TRUE)
        /\ A' = a
    /\ outcome' = UnsupportedMethodError
    /\ pc' = "done"
    /\ UNCHANGED <<iteration, z, X, M, error, termination_flag, eigenOut,
                   validatorOut, result, warnings, work, updates>>

\* _matrix_inverse_root_newton, lines 178-193: from the call to the first
\* test of the while condition.  e is the function the caller called.
NewtonEnter(e) ==
    /\ pc = "idle"
    /\ \E a \in Tensors, r \in Roots, eps \in Epsilons,
          maxit \in 0..MaxIters, tol \in Tolerances :
        /\ Pass(e, a, NoTensor, r, eps, NEWTON, maxit, tol, TRUE, TRUE)
        /\ IF NewtonEntryError(a, r) # Returned
           THEN /\ A' = a
                /\ outcome' = NewtonEntryError(a, r)
                /\ pc' = "done"
                /\ work' = <<>>
                /\ UNCHANGED <<z, X, M, error>>
           ELSE LET a1 == Regularize(a, eps)
                    zz == NewtonZ(a1, r)
                    m0 == Scal(zz, a1)
                IN /\ A' = a1
                   /\ z' = zz
                   /\ X' = NewtonX0(zz, r, Rows(a1))
                   /\ M' = m0
                   /\ error' = DistInf(m0, Eye(Rows(a1)))
                   /\ outcome' = Running
                   /\ pc' = "newton_loop"
                   /\ work' = <<"add_", "norm">>
    /\ iteration' = 0
    /\ UNCHANGED <<termination_flag, eigenOut, validatorOut, result, warnings,
                   updates>>

\* matrix_inverse_root with root_inv_method = NEWTON
CallDispatcherNewton == NewtonEnter("matrix_inverse_root")
\* _matrix_inverse_root_newton called directly
CallNewton == NewtonEnter("_matrix_inverse_root_newton")

\* one pass of the while body, lines 196-201
NewtonStep ==
    /\ pc = "newton_loop"
    /\ LoopCondition(error, tolerance, iteration, max_iterations)
    /\ iteration' = iteration + 1
    /\ \E M_p \in {NewtonMp(M, root)} :
         /\ X' = MatMul(X, M_p)
         /\ IF MatrixPowerRaises(M_p, root)
            THEN /\ outcome' = LinAlgError
                 /\ pc' = "done"
                 /\ updates' = [updates EXCEPT !.X = @ + 1]
                 /\ UNCHANGED <<M, error>>
            ELSE \E M_pow \in {MatrixPower(M_p, root)} :
                 \E M_new \in {MatMul(M_pow, M)} :
                   /\ M' = M_new
                   /\ error' = DistInf(M_new, Eye(Rows(M)))
                   /\ updates' = [X |-> updates.X + 1, M |-> updates.M + 1]
                   /\ UNCHANGED <<outcome, pc>>
    /\ work' = Append(work, "newton_step")
    /\ UNCHANGED <<inputs, A, z, termination_flag, eigenOut, validatorOut,
                   result, warnings>>

\* what matrix_inverse_root does with the iterator's flag, lines 62-65:
\* the number of warnings it logs
DispatcherWarnings_silent(flag) == 0
DispatcherWarnings(flag) == IF flag = REACHED_MAX_ITERS THEN 1 ELSE 0

\* the while test fails: lines 203-210, and for a dispatcher call lines 62-73
NewtonExit ==
    /\ pc = "newton_loop"
    /\ ~LoopCondition(error, tolerance, iteration, max_iterations)
    /\ termination_flag' =
           TerminationFlag(error, tolerance, iteration, max_iterations)
    /\ outcome' = Returned
    /\ pc' = "done"
    /\ IF entry = "matrix_inverse_root"
       THEN /\ warnings' = warnings + DispatcherWarnings(termination_flag')
            /\ result' = X
       ELSE UNCHANGED <<warnings, result>>
    /\ UNCHANGED <<inputs, A, iteration, z, X, M, error, eigenOut,
                   validatorOut, work, updates>>

\* compute_matrix_root_inverse_residuals
CallValidator ==
    /\ pc = "idle"
    /\ \E a \in Tensors, xh \in Tensors, r \in Roots, eps \in Epsilons :
        LET v == compute_matrix_root_inverse_residuals(a, xh, r, eps)
        IN /\ Pass("compute_matrix_root_inverse_residuals", a, xh, r, eps,
                   EIGEN, 0, Zero, TRUE, TRUE)
           /\ A' = a
           /\ relative_error' = v.relative_error
           /\ relative_residual' = v.relative_residual
           /\ outcome' = v.outcome
           /\ work' = v.work
    /\ pc' = "done"
    /\ UNCHANGED <<iteration, z, X, M, error, termination_flag, eigenOut,
                   result, warnings, updates>>

\* the call is over; the caller may call again
Finish ==
    /\ pc = "done"
    /\ pc' = "idle"
    /\ entry' = "none"
    /\ A' = NoTensor /\ X_hat' = NoTensor
    /\ A_before' = NoTensor /\ X_hat_before' = NoTensor
    /\ root' = 1 /\ epsilon' = Zero /\ root_inv_method' = EIGEN
    /\ max_iterations' = 0 /\ tolerance' = Zero
    /\ inverse' = TRUE /\ make_positive_semidefinite' = TRUE
    /\ iteration' = 0 /\ z' = NoFloat /\ X' = NoTensor /\ M' = NoTensor
    /\ error' = NoFloat /\ termination_flag' = NoFlag
    /\ L' = NoTensor /\ Q' = NoTensor
    /\ relative_error' = NoFloat /\ relative_residual' = NoFloat
    /\ result' = NoTensor
    /\ outcome' = Running
    /\ warnings' = 0
    /\ work' = <<>>
    /\ updates' = [X |-> 0, M |-> 0]

Next ==
    \/ CallEigen
    \/ CallDispatcherEigen
    \/ CallDispatcherNewton
    \/ CallDispatcherOther
    \/ CallNewton
    \/ NewtonStep
    \/ NewtonExit
    \/ CallValidator
    \/ Finish

Spec == Init /\ [][Next]_vars

\* the interpreter runs a started call to its end
FairSpec == Spec /\ WF_vars(NewtonStep) /\ WF_vars(NewtonExit)

\* ---------------------------------------------------------------- claims
Did(label) == \E x \in 1..Len(work) : work[x] = label
Count(label) == Cardinality({x \in 1..Len(work) : work[x] = label})
DispatcherCall == entry = "matrix_inverse_root"
NewtonCall == entry \in {"matrix_inverse_root", "_matrix_inverse_root_newton"}
                 /\ root_inv_method = NEWTON
EigenCall == entry = "_matrix_root_eigen"
ValidatorCall == entry = "compute_matrix_root_inverse_residuals"
Square2D(T) == NDim(T) = 2 /\ Rows(T) = Cols(T)
AllPositive(T) == \A x \in 1..Len(T.d) : FGt(T.d[x], Zero)

\* C1: a dispatcher call with root <= 0, by EIGEN or by NEWTON, fails with the
\* invalid-root error before any computation: no numerical work is done, A is
\* not modified and nothing is returned.
C1_InvalidRootFailsFirst ==
    (DispatcherCall /\ root <= 0 /\ root_inv_method \in {EIGEN, NEWTON})
        => /\ outcome = InvalidRootError
           /\ work = <<>>
           /\ A = A_before
           /\ result = NoTensor

\* C2: when a dispatcher call by NEWTON ends with REACHED_MAX_ITERS, the
\* dispatcher has logged exactly one warning and returned the iterator's X;
\* it did not raise, ran the iteration once (one regularization, at most
\* max_iterations steps) and did no eigendecomposition.
C2_NonConvergenceWarnsAndReturns ==
    (DispatcherCall /\ root_inv_method = NEWTON
       /\ termination_flag = REACHED_MAX_ITERS)
        => /\ pc = "done"
           /\ outcome = Returned
           /\ warnings = 1
           /\ result = X
           /\ Count("add_") = 1
           /\ Count("newton_step") <= max_iterations
           /\ ~Did("eigh")
C2_Witness ==
    /\ pc = "done" /\ DispatcherCall /\ root_inv_method = NEWTON
    /\ termination_flag = REACHED_MAX_ITERS
    /\ max_iterations > 0 /\ iteration = max_iterations
    /\ warnings = 1

\* C3: a NEWTON call that reaches the regularization leaves the caller's A at
\* A_before + epsilon * I, added once (a call that raises before it leaves A
\* as it was); an EIGEN call, a direct call of the eigen extractor and a call
\* of the validator leave A and X_hat unchanged for every input.
C3_Frame ==
    /\ (NewtonCall /\ work # <<>>)
         => /\ A.shape = A_before.shape
            /\ \A i, j \in 1..Rows(A) :
                 At(A, i, j) = FAdd(At(A_before, i, j),
                                    IF i = j THEN epsilon ELSE Zero)
            /\ Count("add_") = 1
    /\ (NewtonCall /\ outcome = Returned) => work # <<>>
    /\ (NewtonCall /\ work = <<>>) => A = A_before
    /\ ((DispatcherCall /\ root_inv_method = EIGEN) \/ EigenCall \/ ValidatorCall)
         => (A = A_before /\ X_hat = X_hat_before)
C3_Witness ==
    /\ pc = "done" /\ DispatcherCall /\ root_inv_method = NEWTON
    /\ outcome = Returned /\ root >= 1
    /\ epsilon = One /\ A # A_before /\ iteration > 0

\* C4: the iterator returns CONVERGED exactly when the error it returns is
\* <= tolerance and REACHED_MAX_ITERS otherwise, also when the tolerance is
\* met on iteration number max_iterations or before the first iteration.
C4_FlagIffErrorLeTolerance ==
    (NewtonCall /\ outcome = Returned)
        => /\ (termination_flag = CONVERGED) <=> FLe(error, tolerance)
           /\ (termination_flag = REACHED_MAX_ITERS) <=> ~FLe(error, tolerance)
C4_Witness ==
    /\ NewtonCall /\ outcome = Returned /\ root >= 1
    /\ max_iterations > 0 /\ iteration = max_iterations
    /\ updates.M = max_iterations
    /\ FLe(error, tolerance)
    /\ termination_flag = CONVERGED

\* C5: the iterator terminates for every input and every max_iterations >= 0;
\* in every state 0 <= iteration <= max_iterations; the returned iteration
\* count is the number of updates of X and of M; and when the initial error
\* is already <= tolerance nothing is updated and X = z ** (1/p) * I is
\* returned.
C5_IterationInv ==
    /\ 0 <= iteration /\ iteration <= max_iterations
    /\ NewtonCall => (updates.X = iteration /\ updates.M <= iteration)
    /\ (NewtonCall /\ outcome = Returned)
         => /\ updates.X = iteration /\ updates.M = iteration
            /\ Count("newton_step") = iteration
            /\ iteration = 0 => X = Scal(FPowFrac(z, 1, root), Eye(Rows(A)))
C5_ZeroStep ==
    (pc = "newton_loop" /\ iteration = 0 /\ FLe(error, tolerance))
        => (pc' = "done" /\ outcome' = Returned /\ iteration' = 0
              /\ updates' = [X |-> 0, M |-> 0] /\ X' = X)
C5_BoundedIterations ==
    /\ []C5_IterationInv
    /\ [][C5_ZeroStep]_vars
    /\ (pc = "newton_loop") ~> (pc = "done")
C5_Witness ==
    /\ pc = "done" /\ NewtonCall /\ outcome = Returned
    /\ max_iterations = MaxIters /\ iteration = max_iterations
    /\ updates = [X |-> MaxIters, M |-> MaxIters]

\* C6: for a symmetric 2-D square A, root >= 1 and epsilon >= 0 the eigen
\* extractor returns (X, L, Q) with A = Q diag(L) Q^T and
\* X = Q diag(L ** alpha) Q^T, also when epsilon > 0 or the eigenvalues are
\* shifted.
C6_EigenReturnsEigenvaluesOfA ==
    (EigenCall /\ outcome = Returned /\ Square2D(A_before) /\ root >= 1)
        => /\ A_before = Reconstruct(Q, L)
           /\ X = Reconstruct(Q, Map(L, LAMBDA x : PowAlpha(x, root, inverse)))

\* C7 as stated: for a symmetric A whose smallest eigenvalue is negative, any
\* root >= 1 and any epsilon >= 0, EIGEN returns a result without nan, and
\* every eigenvalue raised to the power -1/p is strictly positive.
NegativeMinEigenvalue(T) == Square2D(T) /\ FLt(TensorMin(EighL(T)), Zero)
C7_NoNaNAfterPsdCorrection ==
    /\ (DispatcherCall /\ root_inv_method = EIGEN /\ outcome = Returned
          /\ NegativeMinEigenvalue(A_before))
         => (~HasNaN(result) /\ AllFinite(result))
    /\ (EigenCall /\ outcome = Returned /\ inverse /\ make_positive_semidefinite
          /\ NegativeMinEigenvalue(A_before))
         => (AllPositive(L) /\ ~HasNaN(X))
\* C7 amended: the same for every epsilon > 0.
C7_NoNaNWhenEpsilonPositive ==
    /\ (DispatcherCall /\ root_inv_method = EIGEN /\ outcome = Returned
          /\ NegativeMinEigenvalue(A_before) /\ FGt(epsilon, Zero))
         => (~HasNaN(result) /\ AllFinite(result))
    /\ (EigenCall /\ outcome = Returned /\ inverse /\ make_positive_semidefinite
          /\ NegativeMinEigenvalue(A_before) /\ FGt(epsilon, Zero))
         => (AllPositive(L) /\ ~HasNaN(X) /\ AllFinite(X))
C7_Witness ==
    /\ pc = "done" /\ DispatcherCall /\ root_inv_method = EIGEN
    /\ outcome = Returned /\ root = 2
    /\ A_before = DiagT(<<-1, 2>>) /\ epsilon = One
    /\ AllFinite(result) /\ Did("eigh")

\* C8 as stated: a 1 x 1 matrix with value v > 0 and root 2 takes the
\* degenerate path of the eigen extractor: v ** (-0.5) by direct scalar
\* exponentiation, eigenvector 1.0, no eigendecomposition, no epsilon.
DegenerateResult ==
    /\ outcome = Returned
    /\ X = Tensor(A_before.shape, <<FDiv(One, FRoot(A_before.d[1], 2))>>)
    /\ L = A_before
    /\ Q = Tensor(<<>>, <<One>>)
    /\ ~Did("eigh")
C8_OneByOneTakesDegeneratePath ==
    (EigenCall /\ inverse /\ root = 2 /\ A_before.shape = <<1, 1>>
       /\ FGt(A_before.d[1], Zero))
        => DegenerateResult
\* C8 amended: the degenerate path is taken by a 0-dimensional tensor and by a
\* 1-dimensional tensor of one element.
C8_ScalarTakesDegeneratePath ==
    (EigenCall /\ inverse /\ root = 2 /\ A_before.shape \in {<<>>, <<1>>}
       /\ FGt(A_before.d[1], Zero))
        => DegenerateResult
C8_Witness ==
    /\ pc = "done" /\ EigenCall /\ inverse /\ root = 2
    /\ A_before = Vector1 /\ epsilon = One /\ make_positive_semidefinite
    /\ X = Tensor(<<1>>, <<Fin(Scale \div 2)>>)

\* C9: a 2-D non-square A makes the dispatcher by EIGEN (root >= 1) and the
\* validator fail with the shape error, and so does a square A with an X_hat
\* of another shape in the validator; no eigendecomposition, reference root
\* or matrix power is computed before the error.
NonSquare2D(T) == NDim(T) = 2 /\ Rows(T) # Cols(T)
C9_ShapeErrorBeforeWork ==
    /\ (DispatcherCall /\ root_inv_method = EIGEN /\ root >= 1
          /\ NonSquare2D(A_before))
         => (outcome = NotSquareError /\ work = <<>> /\ result = NoTensor)
    /\ (ValidatorCall /\ NonSquare2D(A_before))
         => (outcome = NotSquareError /\ work = <<>>
               /\ relative_error = NoFloat /\ relative_residual = NoFloat)
    /\ (ValidatorCall /\ Square2D(A_before) /\ X_hat.shape # A_before.shape)
         => (outcome = ShapeMismatchError /\ work = <<>>
               /\ relative_error = NoFloat /\ relative_residual = NoFloat)
C9_Witness ==
    /\ pc = "done" /\ DispatcherCall /\ root_inv_method = EIGEN /\ root = 2
    /\ A_before = NonSquare /\ outcome = NotSquareError

\* C10: whenever the iterator returns REACHED_MAX_ITERS the cap was hit: the
\* returned iteration count is max_iterations and the returned error is
\* > tolerance, for every input matrix (root >= 1), the zero matrix with
\* epsilon = 0 included.
C10_ReachedMaxItersMeansCapHit ==
    (NewtonCall /\ outcome = Returned /\ root >= 1
       /\ termination_flag = REACHED_MAX_ITERS)
        => (iteration = max_iterations /\ FGt(error, tolerance))

====
